---- MODULE Spec2Model ----
(***************************************************************************)
(* A model of src/Elevator.py: the Request value, the Elevator car (the    *)
(* second, concrete definition of lines 199-342) and its subclass          *)
(* PassengerElevator with its two heap-ordered direction queues.           *)
(*                                                                         *)
(* A call of a method is one action.  What the call did is recorded in     *)
(* op (the method), arg (the request it was given), result (returned, or   *)
(* the exception that left it) and events (what it emitted).  One caller   *)
(* drives the car; PassengerElevator.operate is split at its loop so that  *)
(* the asynchronous emergency signal can arrive while it runs.             *)
(***************************************************************************)
EXTENDS Integers, Sequences, FiniteSets, TLC

\* ------------------------------------------------------------------ bounds
MaxFloor == 1          \* floors 0..MaxFloor are handed to the car
MaxQueue == 2          \* admissions stop when the car has this many requests outstanding
RecursionLimit == 3    \* depth at which the interpreter raises RecursionError

Floors == 0..MaxFloor

\* ------------------------------------------------------------ enumerations
State == {"IDLE", "UP", "DOWN", "EMERGENCY"}
RequestOrigin == {"BUTTON", "CALL", "SYSTEM"}
DoorState == {"OPEN", "CLOSED", "JAMMED"}

\* ----------------------------------------------------------- Python values
\* A value with its run-time type, as isinstance() sees it.
IntVal(n) == [type |-> "int", v |-> n]
NoneVal == [type |-> "NoneType", v |-> 0]
StrVal == [type |-> "str", v |-> 0]
isinstance(value, t) == value.type = t

NoErr == "none"

\* -------------------------------------------------- Request (lines 105-180)
\* The outcome of an accessor: the value read, or the exception raised.
Failed(exc) == [raised |-> exc, val |-> NoneVal]

\* @property origin_floor: `return self.origin_floor` re-enters the getter.
RECURSIVE origin_floor_getter(_, _)
origin_floor_getter(self, depth) ==
    IF depth >= RecursionLimit THEN Failed("RecursionError")
    ELSE origin_floor_getter(self, depth + 1)

\* @property target_floor: `return self.target_floor` re-enters the getter.
RECURSIVE target_floor_getter(_, _)
target_floor_getter(self, depth) ==
    IF depth >= RecursionLimit THEN Failed("RecursionError")
    ELSE target_floor_getter(self, depth + 1)

\* @origin_floor.setter: the exception that leaves it.  The type check, then
\* `self.origin_floor = value`, which re-enters the setter.
RECURSIVE origin_floor_setter(_, _)
origin_floor_setter(value, depth) ==
    IF depth >= RecursionLimit THEN "RecursionError"
    ELSE IF ~isinstance(value, "int") THEN "ValueError"
    ELSE origin_floor_setter(value, depth + 1)

\* @target_floor.setter: None or an int passes, then the setter re-enters.
RECURSIVE target_floor_setter(_, _)
target_floor_setter(value, depth) ==
    IF depth >= RecursionLimit THEN "RecursionError"
    ELSE IF ~isinstance(value, "NoneType") /\ ~isinstance(value, "int")
         THEN "ValueError"
    ELSE target_floor_setter(value, depth + 1)

\* The direction computed by lines 116 and 123-129 from the two arguments.
Direction(origin_floor, target_floor) ==
    IF ~isinstance(target_floor, "NoneType")
    THEN IF target_floor.v > origin_floor.v THEN "UP"
         ELSE IF target_floor.v < origin_floor.v THEN "DOWN"
         ELSE "IDLE"
    ELSE "IDLE"

\* A Request instance: its type and the attributes it stands for.  The code
\* reaches the two floors only through the accessors above.
Instance(origin, origin_floor, target_floor) ==
    [type |-> "Request", origin |-> origin,
     direction |-> Direction(origin_floor, target_floor),
     origin_floor |-> origin_floor, target_floor |-> target_floor]

\* Request.__init__: [raised, obj].  origin and direction are assigned, then
\* the two floors go through their setters, then the direction is computed.
Request__init__(origin, origin_floor, target_floor) ==
    LET s1 == origin_floor_setter(origin_floor, 0)
        s2 == target_floor_setter(target_floor, 0)
        obj == Instance(origin, origin_floor, target_floor)
    IN  IF s1 # NoErr THEN [raised |-> s1, obj |-> obj]
        ELSE IF s2 # NoErr THEN [raised |-> s2, obj |-> obj]
        ELSE [raised |-> NoErr, obj |-> obj]

\* Request.__lt__: self.target_floor < other.target_floor, both read through
\* the getter; `<` between None and an int is a TypeError.
Request__lt__(self, other) ==
    LET a == target_floor_getter(self, 0)
        b == target_floor_getter(other, 0)
    IN  IF a.raised # NoErr THEN [raised |-> a.raised, val |-> FALSE]
        ELSE IF b.raised # NoErr THEN [raised |-> b.raised, val |-> FALSE]
        ELSE IF ~isinstance(a.val, "int") \/ ~isinstance(b.val, "int")
             THEN [raised |-> "TypeError", val |-> FALSE]
        ELSE [raised |-> NoErr, val |-> a.val.v < b.val.v]

\* ------------------------------------------------ heapq on a Python list
\* A list is a sequence; the code's index i is position i + 1.
Swap(heap, i, j) == [heap EXCEPT ![i + 1] = heap[j + 1], ![j + 1] = heap[i + 1]]

\* heapq's sift towards the root: the new item at pos moves up while it is
\* less than its parent.  A comparison that raises leaves the list as it is.
RECURSIVE siftdown(_, _, _)
siftdown(heap, startpos, pos) ==
    IF pos <= startpos THEN [heap |-> heap, raised |-> NoErr]
    ELSE LET parentpos == (pos - 1) \div 2
             cmp == Request__lt__(heap[pos + 1], heap[parentpos + 1])
         IN  IF cmp.raised # NoErr THEN [heap |-> heap, raised |-> cmp.raised]
             ELSE IF ~cmp.val THEN [heap |-> heap, raised |-> NoErr]
             ELSE siftdown(Swap(heap, pos, parentpos), startpos, parentpos)

\* heapq's sift towards the leaves: the smaller child moves up until a leaf.
RECURSIVE siftup_children(_, _)
siftup_children(heap, pos) ==
    LET endpos == Len(heap)
        limit == endpos \div 2
        childpos == 2 * pos + 1
        cmp == IF childpos + 1 < endpos
               THEN Request__lt__(heap[childpos + 1], heap[childpos + 2])
               ELSE [raised |-> NoErr, val |-> TRUE]
        smaller == IF cmp.val THEN childpos ELSE childpos + 1
    IN  IF pos >= limit THEN [heap |-> heap, pos |-> pos, raised |-> NoErr]
        ELSE IF cmp.raised # NoErr
             THEN [heap |-> heap, pos |-> pos, raised |-> cmp.raised]
        ELSE siftup_children(Swap(heap, smaller, pos), smaller)

siftup(heap, pos) ==
    LET down == siftup_children(heap, pos)
    IN  IF down.raised # NoErr THEN [heap |-> down.heap, raised |-> down.raised]
        ELSE siftdown(down.heap, pos, down.pos)

\* heapq.heappush(heap, item): append, then sift the new item up.
heappush(heap, item) ==
    siftdown(Append(heap, item), 0, Len(heap))

\* heapq.heappop(heap) on a non-empty list: [heap, raised, item].  The last
\* item is removed; it replaces the root, which is returned after the sift.
heappop(heap) ==
    LET n == Len(heap)
        lastelt == heap[n]
        rest == SubSeq(heap, 1, n - 1)
        sifted == siftup([rest EXCEPT ![1] = lastelt], 0)
    IN  IF n = 1 THEN [heap |-> rest, raised |-> NoErr, item |-> lastelt]
        ELSE [heap |-> sifted.heap, raised |-> sifted.raised, item |-> heap[1]]

\* -------------------------------------------- Elevator (lines 199-342)
\* The outcome of a method on car `self`: the car afterwards, the exception
\* that left the method (NoErr when it returned) and the events it emitted.
Returned(self, log) == [self |-> self, raised |-> NoErr, log |-> log]
Raised(self, exc, log) == [self |-> self, raised |-> exc, log |-> log]

\* Elevator.__init__ / PassengerElevator.__init__ with a bool emergency_status
\* and an int current_floor; any other argument raises ValueError in the
\* setters and constructs no car.  A car of the base class has no queues:
\* its two queue fields stay empty and no method touches them.
NewCar(cls, emergency_status, current_floor) ==
    [cls |-> cls, state |-> "IDLE", emergency_status |-> emergency_status,
     current_floor |-> current_floor, door_state |-> "CLOSED",
     passenger_up_queue |-> << >>, passenger_down_queue |-> << >>]

\* @current_floor.setter
current_floor_setter(self, value) ==
    IF ~isinstance(value, "int") THEN Raised(self, "ValueError", << >>)
    ELSE Returned([self EXCEPT !.current_floor = value.v], << >>)

\* @state.setter
state_setter(self, value) ==
    IF ~isinstance(value, "State") THEN Raised(self, "ValueError", << >>)
    ELSE Returned([self EXCEPT !.state = value.v], << >>)

\* @door_state.setter
door_state_setter(self, value) ==
    IF ~isinstance(value, "DoorState") THEN Raised(self, "ValueError", << >>)
    ELSE Returned([self EXCEPT !.door_state = value.v], << >>)

\* @emergency_status.setter
emergency_status_setter(self, value) ==
    IF ~isinstance(value, "bool") THEN Raised(self, "ValueError", << >>)
    ELSE Returned([self EXCEPT !.emergency_status = value.v], << >>)

\* open_door without the test of the motion state.
open_door_unguarded(self) ==
    Returned([self EXCEPT !.door_state = "OPEN"], <<"door opened">>)

\* Elevator.open_door
open_door(self) ==
    IF self.state = "IDLE"
    THEN Returned([self EXCEPT !.door_state = "OPEN"], <<"door opened">>)
    ELSE Returned(self, <<"cannot open door">>)

\* Elevator.close_door
close_door(self) ==
    IF self.state = "IDLE"
    THEN Returned([self EXCEPT !.door_state = "CLOSED"], <<"door closed">>)
    ELSE Returned(self, <<"cannot close door">>)

\* Elevator.wait_for_seconds: a blocking sleep, the car is as before.
wait_for_seconds(self, seconds) ==
    Returned(self, <<"waiting">>)

\* Elevator.operate, the base method: a message only.
Elevator_operate(self) ==
    Returned(self, <<"in operation">>)

\* Elevator.process_emergency that leaves the emergency mode again when it
\* finds the car in it.
process_emergency_toggles(self) ==
    IF self.emergency_status /\ self.state # "EMERGENCY"
    THEN Returned([self EXCEPT !.state = "EMERGENCY"], <<"emergency mode">>)
    ELSE Returned([self EXCEPT !.state = "IDLE"], <<"normal operation">>)

\* Elevator.process_emergency, the base method.
Elevator_process_emergency(self) ==
    IF self.emergency_status
    THEN Returned([self EXCEPT !.state = "EMERGENCY"], <<"emergency mode">>)
    ELSE Returned([self EXCEPT !.state = "IDLE"], <<"normal operation">>)

\* ----------------------------------- PassengerElevator (lines 345-443)
EmergencyFloor == 1    \* line 374: process_emergency sets current_floor = 1

\* The loop condition of operate with the down-queue forgotten.
operate_pending_up_only(self) ==
    self.passenger_up_queue # << >>

\* Line 366, the loop condition of operate.
operate_pending(self) ==
    self.passenger_down_queue # << >> \/ self.passenger_up_queue # << >>

\* Line 367, self.process_requests(): the class and its base define no
\* method of that name, so the attribute lookup raises.
process_requests(self) ==
    Raised(self, "AttributeError", << >>)

\* Lines 368-369, after the loop.
operate_finish(self) ==
    Returned([self EXCEPT !.state = "IDLE"], <<"completed all requests">>)

\* process_emergency with the clearing of the up-queue left out.
process_emergency_keeps_up_queue(self) ==
    Returned([self EXCEPT !.passenger_down_queue = << >>,
                          !.current_floor = EmergencyFloor,
                          !.door_state = "CLOSED",
                          !.state = "IDLE",
                          !.emergency_status = TRUE],
             <<"processing emergency">>)

\* PassengerElevator.process_emergency: the override reads no flag.
PassengerElevator_process_emergency(self) ==
    Returned([self EXCEPT !.passenger_down_queue = << >>,
                          !.passenger_up_queue = << >>,
                          !.current_floor = EmergencyFloor,
                          !.door_state = "CLOSED",
                          !.state = "IDLE",
                          !.emergency_status = TRUE],
             <<"processing emergency">>)

\* The message of lines 394-395 and 410-411 reads both floors of the request.
added_message(request) ==
    LET a == origin_floor_getter(request, 0)
        b == target_floor_getter(request, 0)
    IN  IF a.raised # NoErr THEN a.raised ELSE b.raised

\* Lines 389-395 of add_up_request: what follows the isinstance check.
push_up_request(self, request) ==
    LET of == origin_floor_getter(request, 0)
        made == Request__init__(request.origin, of.val, of.val)
        first == heappush(self.passenger_up_queue, made.obj)
        base == IF request.origin = "CALL" THEN first.heap
                ELSE self.passenger_up_queue
        second == heappush(base, request)
        after == [self EXCEPT !.passenger_up_queue = second.heap]
    IN  IF request.origin = "CALL" /\ of.raised # NoErr
        THEN Raised(self, of.raised, << >>)
        ELSE IF request.origin = "CALL" /\ made.raised # NoErr
        THEN Raised(self, made.raised, << >>)
        ELSE IF request.origin = "CALL" /\ first.raised # NoErr
        THEN Raised([self EXCEPT !.passenger_up_queue = first.heap],
                    first.raised, << >>)
        ELSE IF second.raised # NoErr THEN Raised(after, second.raised, << >>)
        ELSE IF added_message(request) # NoErr
        THEN Raised(after, added_message(request), << >>)
        ELSE Returned(after, <<"added up request">>)

\* add_up_request without the isinstance test of lines 387-388.
add_up_request_unchecked(self, request) ==
    push_up_request(self, request)

\* PassengerElevator.add_up_request
add_up_request(self, request) ==
    IF ~isinstance(request, "Request")
    THEN Raised(self, "ValueError", << >>)
    ELSE push_up_request(self, request)

\* PassengerElevator.add_down_request
add_down_request(self, request) ==
    LET tf == target_floor_getter(request, 0)
        made == Request__init__(request.origin, tf.val, tf.val)
        first == heappush(self.passenger_down_queue, made.obj)
        base == IF request.origin = "CALL" THEN first.heap
                ELSE self.passenger_down_queue
        second == heappush(base, request)
        after == [self EXCEPT !.passenger_down_queue = second.heap]
    IN  IF ~isinstance(request, "Request")
        THEN Raised(self, "ValueError", << >>)
        ELSE IF request.origin = "CALL" /\ tf.raised # NoErr
        THEN Raised(self, tf.raised, << >>)
        ELSE IF request.origin = "CALL" /\ made.raised # NoErr
        THEN Raised(self, made.raised, << >>)
        ELSE IF request.origin = "CALL" /\ first.raised # NoErr
        THEN Raised([self EXCEPT !.passenger_down_queue = first.heap],
                    first.raised, << >>)
        ELSE IF second.raised # NoErr THEN Raised(after, second.raised, << >>)
        ELSE IF added_message(request) # NoErr
        THEN Raised(after, added_message(request), << >>)
        ELSE Returned(after, <<"added down request">>)

\* Line 417 reads up_request.current_floor: Request (lines 105-180) and its
\* instances have no attribute of that name.
request_current_floor(up_request) ==
    Failed("AttributeError")

\* Lines 438-443 for one request whose hop ended: the floor is set to the
\* target, then the door opens, dwells and closes.
arrive(self, target, log) ==
    LET moved == current_floor_setter(self, target)
        opened == open_door(moved.self)
        dwelt == wait_for_seconds(opened.self, 3)
        closed == close_door(dwelt.self)
    IN  IF moved.raised # NoErr THEN Raised(self, moved.raised, log)
        ELSE Returned(closed.self,
                      log \o <<"arrived">> \o opened.log \o dwelt.log \o closed.log)

\* PassengerElevator.process_up_requests: the outcome and the requests it
\* popped, in order.  `travel` is how the simulated hop of lines 424-436
\* ends: "done", "KeyboardInterrupt" or "Exception".
Served(outcome, served) ==
    [self |-> outcome.self, raised |-> outcome.raised, log |-> outcome.log,
     served |-> served]

RECURSIVE process_up_requests_from(_, _, _, _)
process_up_requests_from(self, travel, log, served) ==
    IF self.passenger_up_queue = << >> THEN Served(Returned(self, log), served)
    ELSE
    LET got == heappop(self.passenger_up_queue)
        popped == [self EXCEPT !.passenger_up_queue = got.heap]
        up_request == got.item
        log1 == Append(log, "popped")
        served1 == Append(served, up_request)
        cf == request_current_floor(up_request)
        tf == target_floor_getter(up_request, 0)
        here == arrive(popped, tf.val, log1)
    IN  IF got.raised # NoErr
        THEN Served(Raised(popped, got.raised, log), served)
        ELSE IF cf.raised # NoErr
        THEN Served(Raised(popped, cf.raised, log1), served1)
        ELSE IF isinstance(cf.val, "int") /\ self.current_floor = cf.val.v
        THEN process_up_requests_from(popped, travel, log1, served1)
        ELSE IF tf.raised # NoErr
        THEN Served(Raised(popped, tf.raised, log1), served1)
        ELSE IF travel = "Exception"
        THEN process_up_requests_from(popped, travel, log1, served1)
        ELSE IF here.raised # NoErr THEN Served(here, served1)
        ELSE process_up_requests_from(here.self, travel, here.log, served1)

process_up_requests(self, travel) ==
    process_up_requests_from(self, travel, << >>, << >>)

\* ------------------------------------------------------------ the callers
\* What is handed to the car.  Request.__init__ never completes (see
\* NewRequest), so the instances that reach admission are instances obtained
\* without it; the admission methods take whatever passes isinstance.
UpRequests ==
    {Instance("BUTTON", IntVal(0), IntVal(2)),
     Instance("BUTTON", IntVal(0), IntVal(1)),
     Instance("SYSTEM", IntVal(1), IntVal(1)),
     Instance("CALL", IntVal(1), NoneVal),
     Instance("CALL", IntVal(0), IntVal(2))}
DownRequests ==
    {Instance("BUTTON", IntVal(2), IntVal(0)),
     Instance("CALL", IntVal(2), IntVal(1))}
ConstructorArgs ==
    {<<"BUTTON", IntVal(0), IntVal(1)>>, <<"BUTTON", IntVal(1), IntVal(0)>>,
     <<"SYSTEM", IntVal(1), IntVal(1)>>,
     <<"CALL", IntVal(0), NoneVal>>, <<"CALL", StrVal, NoneVal>>}
NotARequest == [type |-> "int", origin |-> "none", direction |-> "none",
                origin_floor |-> NoneVal, target_floor |-> NoneVal]
FloorValues == {IntVal(f) : f \in Floors} \cup {StrVal}
NoRequest == [type |-> "NoneType", origin |-> "none", direction |-> "none",
              origin_floor |-> NoneVal, target_floor |-> NoneVal]
StateValues == {[type |-> "State", v |-> x] : x \in State}
DoorStateValues == {[type |-> "DoorState", v |-> x] : x \in DoorState}
BoolValues == {[type |-> "bool", v |-> x] : x \in BOOLEAN}
Travel == {"done", "KeyboardInterrupt", "Exception"}

VARIABLES
    car,        \* the car: its class and the attributes of lines 213-217, 361-362
    pc,         \* "ready", or the line of operate() the running call is at
    op,         \* the method called last
    arg,        \* the request handed to it, NoRequest when it takes none
    result,     \* NoErr when it returned, else the exception that left it
    events,     \* what the last call emitted
    served,     \* the requests popped by the latest consecutive process_up_requests calls
    peCalls,    \* the latest consecutive process_emergency calls, at most two:
                \* emergency_status and the requests pending when each began,
                \* and the car as each left it
    signalled,  \* emergency_status was set True while operate() was running
    admitted,   \* the requests pushed onto the up-queue and not popped since,
                \* in the order of their admission; forgotten when the
                \* up-queue is left empty
    hop         \* how the travel of the last process_up_requests call was to
                \* end (a member of Travel); "none" when it popped nothing
                \* and after any other call

vars ==
    <<car, pc, op, arg, result, events, served, peCalls, signalled, admitted, hop>>

Init ==
    /\ \E cls \in {"Elevator", "PassengerElevator"},
          emergency_status \in BOOLEAN, current_floor \in Floors :
          car = NewCar(cls, emergency_status, current_floor)
    /\ pc = "ready"
    /\ op = "__init__"
    /\ arg = NoRequest
    /\ result = NoErr
    /\ events = << >>
    /\ served = << >>
    /\ peCalls = << >>
    /\ signalled = FALSE
    /\ admitted = << >>
    /\ hop = "none"

\* A whole call of `method` on `request` with outcome `out`.
CallWith(method, request, out) ==
    /\ pc = "ready"
    /\ car' = out.self
    /\ op' = method
    /\ arg' = request
    /\ result' = out.raised
    /\ events' = out.log
    /\ UNCHANGED <<pc, signalled>>

Call(method, out) == CallWith(method, NoRequest, out)

PassengerOnly == car.cls = "PassengerElevator"
Pending == Len(car.passenger_up_queue) + Len(car.passenger_down_queue)

\* The pickup entry of a call-button request: its target is the origin floor.
PickupFor(request) ==
    Instance(request.origin, request.origin_floor, request.origin_floor)

\* The requests the car has been given and has not served: those admitted to
\* the up-queue and those in the down-queue.
Outstanding == Len(admitted) + Len(car.passenger_down_queue)

\* seq without the first occurrence of x.
RemoveFirst(seq, x) ==
    IF \E i \in 1..Len(seq) : seq[i] = x
    THEN LET i == CHOOSE k \in 1..Len(seq) :
                      seq[k] = x /\ \A m \in 1..(k - 1) : seq[m] # x
         IN  SubSeq(seq, 1, i - 1) \o SubSeq(seq, i + 1, Len(seq))
    ELSE seq

RECURSIVE RemoveEach(_, _)
RemoveEach(seq, xs) ==
    IF xs = << >> THEN seq
    ELSE RemoveEach(RemoveFirst(seq, Head(xs)), Tail(xs))

\* What is remembered of the admissions once a call has left the car as `after`.
StillAdmitted(seq, after) ==
    IF after.passenger_up_queue = << >> THEN << >> ELSE seq

\* The entries a call of add_up_request(request) pushed, by the growth of
\* the up-queue: the pickup entry first, for a call-button request.
Pushed(request, before, after) ==
    LET n == Len(after.passenger_up_queue) - Len(before.passenger_up_queue)
    IN  IF n = 0 THEN << >>
        ELSE IF n = 2 THEN <<PickupFor(request), request>>
        ELSE IF request.origin = "CALL" THEN <<PickupFor(request)>>
        ELSE <<request>>

SetCurrentFloor ==
    \E value \in FloorValues :
        /\ Call("current_floor", current_floor_setter(car, value))
        /\ peCalls' = << >>
        /\ served' = << >>
        /\ hop' = "none"
        /\ UNCHANGED admitted

SetState ==
    \E value \in StateValues :
        /\ Call("state", state_setter(car, value))
        /\ peCalls' = << >>
        /\ served' = << >>
        /\ hop' = "none"
        /\ UNCHANGED admitted

SetDoorState ==
    \E value \in DoorStateValues :
        /\ Call("door_state", door_state_setter(car, value))
        /\ peCalls' = << >>
        /\ served' = << >>
        /\ hop' = "none"
        /\ UNCHANGED admitted

SetEmergencyStatus ==
    \E value \in BoolValues :
        /\ Call("emergency_status", emergency_status_setter(car, value))
        /\ served' = << >>
        /\ hop' = "none"
        /\ UNCHANGED admitted
        /\ UNCHANGED peCalls

OpenDoor ==
    /\ Call("open_door", open_door(car))
    /\ peCalls' = << >>
    /\ served' = << >>
    /\ hop' = "none"
    /\ UNCHANGED admitted

CloseDoor ==
    /\ Call("close_door", close_door(car))
    /\ peCalls' = << >>
    /\ served' = << >>
    /\ hop' = "none"
    /\ UNCHANGED admitted

\* A caller constructs a Request: no instance results.  arg is the instance
\* under construction, with the attributes the constructor was to give it.
NewRequest ==
    \E args \in ConstructorArgs :
        \E made \in {Request__init__(args[1], args[2], args[3])} :
            /\ CallWith("Request", made.obj, Raised(car, made.raised, << >>))
            /\ peCalls' = << >>
            /\ served' = << >>
            /\ hop' = "none"
            /\ UNCHANGED admitted

LastTwo(s) == IF Len(s) > 2 THEN SubSeq(s, Len(s) - 1, Len(s)) ELSE s

ProcessEmergency ==
    /\ Call("process_emergency",
            IF PassengerOnly THEN PassengerElevator_process_emergency(car)
            ELSE Elevator_process_emergency(car))
    /\ peCalls' = LastTwo(Append(peCalls, [active |-> car.emergency_status,
                                           pending |-> Pending,
                                           after |-> car']))
    /\ served' = << >>
    /\ hop' = "none"
    /\ admitted' = StillAdmitted(admitted, car')

\* add_up_request is called on a car with fewer than `limit` requests
\* outstanding.
AdmitUp(limit) ==
    \E request \in UpRequests \cup {NotARequest} :
        \E out \in {add_up_request(car, request)} :
            /\ PassengerOnly
            /\ Outstanding < limit
            /\ CallWith("add_up_request", request, out)
            /\ peCalls' = << >>
            /\ served' = << >>
            /\ hop' = "none"
            /\ admitted' = admitted \o Pushed(request, car, out.self)

AddUpRequest == AdmitUp(MaxQueue)

AddDownRequest ==
    \E request \in DownRequests \cup {NotARequest} :
        /\ PassengerOnly
        /\ Outstanding < MaxQueue
        /\ CallWith("add_down_request", request, add_down_request(car, request))
        /\ peCalls' = << >>
        /\ served' = << >>
        /\ hop' = "none"
        /\ UNCHANGED admitted

ProcessUpRequests ==
    \E travel \in Travel :
        \E out \in {process_up_requests(car, travel)} :
            /\ PassengerOnly
            /\ Call("process_up_requests", out)
            /\ peCalls' = << >>
            /\ served' = served \o out.served
            /\ hop' = IF out.served = << >> THEN "none" ELSE travel
            /\ admitted' = StillAdmitted(RemoveEach(admitted, out.served), out.self)

\* Elevator.operate on a car of the base class.
OperateBase ==
    /\ ~PassengerOnly
    /\ Call("operate", Elevator_operate(car))
    /\ peCalls' = << >>
    /\ served' = << >>
    /\ hop' = "none"
    /\ UNCHANGED admitted

\* PassengerElevator.operate is entered.
OperateCall ==
    /\ PassengerOnly
    /\ pc = "ready"
    /\ pc' = "operate_366"
    /\ op' = "operate"
    /\ arg' = NoRequest
    /\ result' = "running"
    /\ events' = << >>
    /\ peCalls' = << >>
    /\ signalled' = FALSE
    /\ served' = << >>
    /\ hop' = "none"
    /\ UNCHANGED admitted
    /\ UNCHANGED car

\* Lines 366-367: the loop condition and, while it holds, process_requests().
OperateLoop ==
    /\ pc = "operate_366"
    /\ IF operate_pending(car)
       THEN LET out == process_requests(car)
            IN  /\ car' = out.self
                /\ events' = events \o out.log
                /\ IF out.raised # NoErr
                   THEN pc' = "ready" /\ result' = out.raised
                   ELSE UNCHANGED <<pc, result>>
       ELSE /\ pc' = "operate_368"
            /\ UNCHANGED <<car, events, result>>
    /\ UNCHANGED <<op, arg, served, peCalls, signalled, admitted, hop>>

\* Lines 368-369: the state is set and operate returns.
OperateFinish ==
    /\ pc = "operate_368"
    /\ LET out == operate_finish(car)
       IN  /\ car' = out.self
           /\ events' = events \o out.log
           /\ result' = out.raised
    /\ pc' = "ready"
    /\ UNCHANGED <<op, arg, served, peCalls, signalled, admitted, hop>>

\* The emergency flag is set True from outside while operate() is running:
\* the setter of lines 331-342, the only thing the signal does.
EmergencySignal ==
    /\ pc # "ready"
    /\ car' = emergency_status_setter(car, [type |-> "bool", v |-> TRUE]).self
    /\ signalled' = TRUE
    /\ UNCHANGED <<pc, op, arg, result, events, served, peCalls, admitted, hop>>

Next ==
    \/ SetCurrentFloor \/ SetState \/ SetDoorState \/ SetEmergencyStatus
    \/ OpenDoor \/ CloseDoor \/ NewRequest \/ ProcessEmergency
    \/ AddUpRequest \/ AddDownRequest \/ ProcessUpRequests
    \/ OperateBase \/ OperateCall \/ OperateLoop \/ OperateFinish
    \/ EmergencySignal

Spec == Init /\ [][Next]_vars

\* The car driven through its methods alone, no attribute assigned from
\* outside but the emergency signal.  operate() runs to its end once called;
\* nothing obliges a caller to call.
MethodNext ==
    \/ OpenDoor \/ CloseDoor \/ ProcessEmergency
    \/ AddUpRequest \/ AddDownRequest \/ ProcessUpRequests
    \/ OperateBase \/ OperateCall \/ OperateLoop \/ OperateFinish
    \/ EmergencySignal

MethodSpec == Init /\ [][MethodNext]_vars

\* The queue discipline alone: admissions to the up-queue and service calls,
\* with room for one request more than under Spec (with three entries
\* queued, heappop has comparisons to make).
QueueNext == AdmitUp(MaxQueue + 1) \/ ProcessUpRequests

QueueSpec == Init /\ [][QueueNext]_vars

FairSpec ==
    Init /\ [][MethodNext]_vars /\ WF_vars(OperateLoop) /\ WF_vars(OperateFinish)

\* ------------------------------------------------------------- properties
QueuesEmpty ==
    car.passenger_up_queue = << >> /\ car.passenger_down_queue = << >>

\* C1: whenever operate() on a passenger car returns, both queues are empty
\* and the motion state is Idle.
C1_OperateReturnsDrainedIdle ==
    (PassengerOnly /\ op = "operate" /\ pc = "ready" /\ result = NoErr)
        => (QueuesEmpty /\ car.state = "IDLE")

\* operate() returned on a passenger car whose door had been left open.
C1_Witness ==
    /\ PassengerOnly /\ op = "operate" /\ pc = "ready" /\ result = NoErr
    /\ events = <<"completed all requests">>
    /\ car.door_state = "OPEN" /\ car.state = "IDLE" /\ QueuesEmpty

\* C2: process_emergency called with emergency_status True ends with both
\* queues empty, motion state Emergency, door Closed and the floor reset to
\* the safe floor.
C2_EmergencyEntered ==
    (PassengerOnly /\ op = "process_emergency" /\ peCalls[Len(peCalls)].active)
        => /\ QueuesEmpty
           /\ car.state = "EMERGENCY"
           /\ car.door_state = "CLOSED"
           /\ car.current_floor = EmergencyFloor

\* C3: an emergency signal set while operate() is running leads to motion
\* state Emergency with both queues empty.
C3_SignalLeadsToEmergency ==
    signalled ~> (car.state = "EMERGENCY" /\ QueuesEmpty)

\* C4: in every state, emergency_status True implies motion state Emergency
\* and both queues empty.
C4_EmergencyActiveInvariant ==
    car.emergency_status => (car.state = "EMERGENCY" /\ QueuesEmpty)

\* C5: process_emergency with the flag True followed by process_emergency
\* with the flag False leaves motion state Idle and both queues empty.
C5_EmergencyThenClear ==
    (/\ op = "process_emergency"
     /\ Len(peCalls) = 2 /\ peCalls[1].active /\ ~peCalls[2].active)
        => (car.state = "IDLE" /\ QueuesEmpty)

\* The second of the two calls has returned, on a passenger car that held
\* requests when the first began.
C5_Witness ==
    /\ PassengerOnly /\ op = "process_emergency" /\ result = NoErr
    /\ Len(peCalls) = 2 /\ peCalls[1].active /\ ~peCalls[2].active
    /\ peCalls[1].pending > 0
    /\ car.state = "IDLE" /\ QueuesEmpty

\* C6: open_door() and close_door() called while the motion state is not
\* Idle leave the door state as it was and raise nothing.
C6_DoorRejectedWhenNotIdle ==
    [][(op' \in {"open_door", "close_door"} /\ car.state # "IDLE")
           => (car'.door_state = car.door_state /\ result' = NoErr)]_vars

\* open_door() was rejected on a moving car and the door is still closed.
C6_Witness ==
    /\ op = "open_door" /\ result = NoErr
    /\ car.state = "UP" /\ car.door_state = "CLOSED"
    /\ events = <<"cannot open door">>

\* C7: the targets of the requests popped from the up-queue by successive
\* service calls are non-decreasing.
C7_ServedAscending ==
    \A i, j \in 1..Len(served) :
        (/\ i < j
         /\ isinstance(served[i].target_floor, "int")
         /\ isinstance(served[j].target_floor, "int"))
            => served[i].target_floor.v <= served[j].target_floor.v

Count(queue, request) ==
    Cardinality({i \in 1..Len(queue) : queue[i] = request})

\* C8: add_up_request of a call-button request adds exactly two entries to
\* the up-queue, the pickup at its origin floor and the request; of any
\* other request, exactly that request.
C8_CallAdmissionAddsPickup ==
    [][(op' = "add_up_request" /\ isinstance(arg', "Request"))
           => LET before == car.passenger_up_queue
                  after == car'.passenger_up_queue
              IN  /\ Count(after, arg') = Count(before, arg') + 1
                  /\ IF arg'.origin = "CALL"
                     THEN /\ Len(after) = Len(before) + 2
                          /\ Count(after, PickupFor(arg'))
                                = Count(before, PickupFor(arg')) + 1
                     ELSE Len(after) = Len(before) + 1]_vars

\* operate() ends on this step.
OperateEnds == op = "operate" /\ pc # "ready" /\ pc' = "ready"

\* C9: an Idle passenger car at floor f, door Closed, no emergency, holding
\* one up-request whose target t differs from f: operate() returns with the
\* car at t, the door Closed after having been opened, motion state Idle.
C9_SingleUpRequestServed ==
    [][(/\ OperateEnds /\ PassengerOnly
        /\ car.state = "IDLE" /\ car.door_state = "CLOSED"
        /\ ~car.emergency_status /\ ~signalled
        /\ Len(car.passenger_up_queue) = 1
        /\ car.passenger_down_queue = << >>
        /\ isinstance(car.passenger_up_queue[1].target_floor, "int")
        /\ car.passenger_up_queue[1].target_floor.v # car.current_floor)
           => /\ result' = NoErr
              /\ car'.current_floor = car.passenger_up_queue[1].target_floor.v
              /\ car'.door_state = "CLOSED"
              /\ car'.state = "IDLE"
              /\ \E i \in 1..Len(events') : events'[i] = "door opened"]_vars

C12_NonRequestRejected ==
    [][(/\ op' \in {"add_up_request", "add_down_request"}
        /\ ~isinstance(arg', "Request"))
           => (result' = "ValueError" /\ car' = car)]_vars

\* add_up_request rejected a value that is not a Request on a car that
\* holds a request already.
C12_Witness ==
    /\ op = "add_up_request" /\ arg = NotARequest /\ result = "ValueError"
    /\ Len(car.passenger_up_queue) = 1

\* C13: constructing a Request with integer floors gives a request whose
\* direction is Up when the target is above the origin, Down when below,
\* Idle when the floors are equal or there is no target.
C13_RequestDirection ==
    (/\ op = "Request"
     /\ isinstance(arg.origin_floor, "int")
     /\ isinstance(arg.target_floor, "int") \/ isinstance(arg.target_floor, "NoneType"))
        => /\ result = NoErr
           /\ arg.direction =
                  IF isinstance(arg.target_floor, "NoneType") THEN "IDLE"
                  ELSE IF arg.target_floor.v > arg.origin_floor.v THEN "UP"
                  ELSE IF arg.target_floor.v < arg.origin_floor.v THEN "DOWN"
                  ELSE "IDLE"

\* C14: once the motion state is Emergency, no operation changes it but
\* process_emergency called with emergency_status False; operate(),
\* admission and the door commands leave it Emergency.  (An assignment to
\* the state attribute is not one of the car's operations.)
C14_EmergencyAbsorbing ==
    [][(/\ car.state = "EMERGENCY"
        /\ op' # "state"
        /\ ~(op' = "process_emergency" /\ ~car.emergency_status))
           => car'.state = "EMERGENCY"]_vars

\* C15: operate() on a passenger car, with no request admitted and no
\* emergency signalled while it runs, comes to its end by returning with
\* both queues drained, whatever the two queues held.
C15_OperateTerminatesDrained ==
    (PassengerOnly /\ op = "operate" /\ pc = "ready" /\ ~signalled)
        => (result = NoErr /\ QueuesEmpty)

\* C16: after add_up_request of a call-button request, the service cycle
\* that follows pops the pickup entry (target: the caller's floor) before
\* the request itself.
C16_PickupServedFirst ==
    [][(/\ op = "add_up_request" /\ isinstance(arg, "Request")
        /\ arg.origin = "CALL"
        /\ op' = "process_up_requests")
           => \E i, j \in 1..Len(served') :
                  /\ i < j
                  /\ served'[i] = PickupFor(arg)
                  /\ served'[j] = arg]_vars

\* The position of the first occurrence of x in seq, Len(seq) + 1 if none.
FirstIndex(seq, x) ==
    IF \E i \in 1..Len(seq) : seq[i] = x
    THEN CHOOSE i \in 1..Len(seq) : seq[i] = x /\ \A m \in 1..(i - 1) : seq[m] # x
    ELSE Len(seq) + 1

SameTarget(r, s) ==
    /\ isinstance(r.target_floor, "int") /\ isinstance(s.target_floor, "int")
    /\ r.target_floor.v = s.target_floor.v

\* C17: of two requests in the up-queue with equal target floors, the one
\* admitted first is served first: a service call pops no request while a
\* different request with the same target, admitted before it, is still
\* unserved.
C17_TiesInAdmissionOrder ==
    [][op' = "process_up_requests"
          => LET new == SubSeq(served', Len(served) + 1, Len(served'))
             IN  \A k \in 1..Len(new) :
                     LET x == new[k]
                         waiting == RemoveEach(admitted, SubSeq(new, 1, k - 1))
                     IN  \A i \in 1..Len(waiting) :
                             ~(/\ i < FirstIndex(waiting, x)
                               /\ waiting[i] # x
                               /\ SameTarget(waiting[i], x))]_vars

\* C18: a service call that pops a request whose target floor is the car's
\* current floor skips it: floor, motion state and door are as before and
\* the call goes on to what else is queued; with nothing else queued it
\* returns.
C18_SameFloorRequestSkipped ==
    [][(/\ op' = "process_up_requests"
        /\ Len(car.passenger_up_queue) = 1
        /\ isinstance(car.passenger_up_queue[1].target_floor, "int")
        /\ car.passenger_up_queue[1].target_floor.v = car.current_floor)
           => /\ result' = NoErr
              /\ car'.passenger_up_queue = << >>
              /\ car'.current_floor = car.current_floor
              /\ car'.state = car.state
              /\ car'.door_state = car.door_state]_vars

\* C19: process_emergency called twice in a row with the same
\* emergency_status leaves the car as the first call left it.
C19_ProcessEmergencyIdempotent ==
    (/\ op = "process_emergency"
     /\ Len(peCalls) = 2 /\ peCalls[1].active = peCalls[2].active)
        => car = peCalls[1].after

\* The second of two calls made with the flag True has returned, on a car
\* of the base class (now in emergency mode).
C19_Witness ==
    /\ ~PassengerOnly /\ op = "process_emergency" /\ result = NoErr
    /\ Len(peCalls) = 2 /\ peCalls[1].active /\ peCalls[2].active
    /\ car.state = "EMERGENCY" /\ car = peCalls[1].after

\* C20: in every state the car reaches through its methods, the door is
\* Open only while the motion state is Idle.
C20_DoorOpenOnlyWhenIdle ==
    car.door_state = "OPEN" => car.state = "IDLE"

====
